---------------------------- MODULE Spec2Model ----------------------------
(***************************************************************************)
(* Model of the web-content core of content-agent: the browse_url tool     *)
(* (fetch_and_analyze) with its address guard isPrivateHostname, its       *)
(* robots.txt resolver fetchRobotsAllowed, the page cache pageCache and    *)
(* the passage ranker relevantPassages.                                    *)
(*                                                                         *)
(* Text is held as TLA+ strings; Len and SubSeq read them character by     *)
(* character, \o builds them.                                              *)
(***************************************************************************)
EXTENDS Integers, Sequences, FiniteSets, TLC

VARIABLES
    host,          \* GuardSpec: the hostname handed to isPrivateHostname
    hostResult,    \* GuardSpec: "pending", or the boolean the guard returned
    robotsIn,      \* RobotsSpec: [body, path, ua] handed to the resolver
    robotsOut,     \* RobotsSpec: the groups the resolver parsed and the boolean it returned
    rankIn,        \* RankSpec: [text, question, max] handed to relevantPassages
    rankOut,       \* RankSpec: whether the ranker returned, and the passages
    clock,         \* Date.now(), in ms
    pageCache,     \* the module-level Map: key -> NoEntry or [at, data]
    fetchedAt,     \* history, kept under AgeSpec: per key, when the page of its entry was read
    heap,          \* the result objects constructed so far; data is an index
    pc,            \* per invocation slot: where browse_url.execute stands
    call,          \* per invocation slot: arguments, locals and what it did
    prev,          \* the invocation that completed last
    callsLeft      \* number of invocations that may still be started

vars == <<host, hostResult, robotsIn, robotsOut, rankIn, rankOut, clock,
          pageCache, fetchedAt, heap, pc, call, prev, callsLeft>>

-----------------------------------------------------------------------------
(* Strings *)

Min(a, b) == IF a < b THEN a ELSE b
Max(a, b) == IF a > b THEN a ELSE b

CharAt(s, i) == SubSeq(s, i, i)

Upper == <<"A","B","C","D","E","F","G","H","I","J","K","L","M",
           "N","O","P","Q","R","S","T","U","V","W","X","Y","Z">>
Lower == <<"a","b","c","d","e","f","g","h","i","j","k","l","m",
           "n","o","p","q","r","s","t","u","v","w","x","y","z">>
Digits == <<"0","1","2","3","4","5","6","7","8","9">>

IsDigit(c) == \E i \in 1..10 : Digits[i] = c
DigitVal(c) == (CHOOSE i \in 1..10 : Digits[i] = c) - 1
IsLowerAlpha(c) == \E i \in 1..26 : Lower[i] = c
IsHexDigit(c) == IsDigit(c) \/ c \in {"a","b","c","d","e","f"}
\* \s of a JavaScript regular expression, over the characters the model uses
IsSpace(c) == c \in {" ", "\n", "\t", "\r"}

LowerChar(c) ==
    IF \E i \in 1..26 : Upper[i] = c
    THEN Lower[CHOOSE i \in 1..26 : Upper[i] = c]
    ELSE c

\* s from index i on, with every character in lower case
RECURSIVE LowerFrom(_, _)
LowerFrom(s, i) ==
    IF i > Len(s) THEN ""
    ELSE IF i = Len(s) THEN LowerChar(CharAt(s, i))
    ELSE LET m == (i + Len(s)) \div 2 IN
         LowerFrom(SubSeq(s, 1, m), i) \o LowerFrom(s, m + 1)

\* String.prototype.toLowerCase
toLowerCase(s) == LowerFrom(s, 1)

\* String.prototype.startsWith / endsWith
startsWith(s, t) == Len(t) <= Len(s) /\ SubSeq(s, 1, Len(t)) = t
endsWith(s, t) == Len(t) <= Len(s) /\ SubSeq(s, Len(s) - Len(t) + 1, Len(s)) = t

\* the least element of a non-empty set of integers
Least(S) == CHOOSE k \in S : \A j \in S : k <= j

\* index of the first occurrence of t in s at or after i, 0 when there is none
IndexFrom(s, t, i) ==
    LET hits == {k \in i..(Len(s) - Len(t) + 1) : SubSeq(s, k, k + Len(t) - 1) = t}
    IN  IF hits = {} THEN 0 ELSE Least(hits)

\* String.prototype.split with a one-character separator
RECURSIVE split(_, _)
split(s, sep) ==
    LET k == IndexFrom(s, sep, 1) IN
    IF k = 0 THEN <<s>>
    ELSE <<SubSeq(s, 1, k - 1)>> \o split(SubSeq(s, k + 1, Len(s)), sep)

\* String.prototype.trim
RECURSIVE trimStart(_)
trimStart(s) ==
    IF Len(s) > 0 /\ IsSpace(CharAt(s, 1)) THEN trimStart(SubSeq(s, 2, Len(s))) ELSE s
RECURSIVE trimEnd(_)
trimEnd(s) ==
    IF Len(s) > 0 /\ IsSpace(CharAt(s, Len(s)))
    THEN trimEnd(SubSeq(s, 1, Len(s) - 1)) ELSE s
trim(s) == trimEnd(trimStart(s))

\* a slice that does not cut
slice_Whole(s, n) == s

\* String.prototype.slice(0, n)
slice(s, n) == SubSeq(s, 1, Min(n, Len(s)))

\* Array.prototype.join
RECURSIVE join(_, _)
join(parts, sep) ==
    IF Len(parts) = 0 THEN ""
    ELSE IF Len(parts) = 1 THEN parts[1]
    ELSE parts[1] \o sep \o join(Tail(parts), sep)

NaN == -1

\* parseInt(s, 10) for an unsigned string: the value of its longest prefix of
\* decimal digits, NaN when that prefix is empty
RECURSIVE ParseDigits(_, _, _)
ParseDigits(s, i, acc) ==
    IF i <= Len(s) /\ IsDigit(CharAt(s, i))
    THEN ParseDigits(s, i + 1, acc * 10 + DigitVal(CharAt(s, i)))
    ELSE acc
parseInt(s) ==
    IF Len(s) > 0 /\ IsDigit(CharAt(s, 1)) THEN ParseDigits(s, 1, 0) ELSE NaN

\* Number.prototype.toString for a natural number
RECURSIVE IntToStr(_)
IntToStr(n) ==
    IF n < 10 THEN Digits[n + 1] ELSE IntToStr(n \div 10) \o Digits[(n % 10) + 1]

-----------------------------------------------------------------------------
(* node:net isIP *)

\* one segment of a dotted quad: 0..255 in decimal, with no leading zero
IsV4Seg(s) ==
    /\ Len(s) \in 1..3
    /\ \A i \in 1..Len(s) : IsDigit(CharAt(s, i))
    /\ (Len(s) > 1 => CharAt(s, 1) # "0")
    /\ parseInt(s) <= 255

IsIPv4(s) ==
    LET parts == split(s, ".") IN
    Len(parts) = 4 /\ \A i \in 1..4 : IsV4Seg(parts[i])

\* an IPv6 address written with hexadecimal groups only (no embedded dotted
\* quad, no zone): at most eight groups of one to four digits, "::" at most
\* once and standing for at least one group
IsIPv6(s) ==
    LET parts == split(s, ":")
        n == Len(parts)
        empties == {i \in 1..n : parts[i] = ""}
        inner == {i \in empties : 1 < i /\ i < n}
        groupOk(g) == Len(g) <= 4 /\ \A i \in 1..Len(g) : IsHexDigit(CharAt(g, i))
    IN  /\ n >= 3
        /\ \A i \in 1..n : groupOk(parts[i])
        /\ Cardinality(inner) <= 1
        /\ (1 \in empties => 2 \in empties)
        /\ (n \in empties => (n - 1) \in empties)
        /\ IF IndexFrom(s, "::", 1) = 0
           THEN n = 8 /\ empties = {}
           ELSE Cardinality({i \in 1..n : parts[i] # ""}) <= 7
                /\ IndexFrom(s, "::", IndexFrom(s, "::", 1) + 1) = 0

isIP(s) == IF IsIPv4(s) THEN 4 ELSE IF IsIPv6(s) THEN 6 ELSE 0

-----------------------------------------------------------------------------
(* The address guard *)

\* the block test reading the third octet in place of the second
In172Block_ThirdOctet(octets) ==
    /\ Len(octets) = 4
    /\ octets[1] = 172
    /\ octets[3] >= 16
    /\ octets[3] <= 31

\* the block test with an upper limit of 32 on the second octet
In172Block_UpTo32(octets) ==
    /\ Len(octets) = 4
    /\ octets[1] = 172
    /\ octets[2] >= 16
    /\ octets[2] <= 32

\* the dotted-quad test of the 172.16.0.0/12 block
In172Block(octets) ==
    /\ Len(octets) = 4
    /\ octets[1] = 172
    /\ octets[2] >= 16
    /\ octets[2] <= 31

isPrivateHostname(h) ==
    LET lower == toLowerCase(h) IN
    IF \/ lower = "localhost"
       \/ lower = "127.0.0.1"
       \/ lower = "0.0.0.0"
       \/ lower = "::1"
       \/ endsWith(lower, ".local")
    THEN TRUE
    ELSE IF isIP(lower) # 0
    THEN IF startsWith(lower, "10.") THEN TRUE
         ELSE IF startsWith(lower, "127.") THEN TRUE
         ELSE IF startsWith(lower, "192.168.") THEN TRUE
         ELSE LET parts == split(lower, ".")
                  octets == [i \in 1..Len(parts) |-> parseInt(parts[i])]
              IN  In172Block(octets)
    ELSE FALSE

-----------------------------------------------------------------------------
(* The robots.txt resolver: parsing and decision *)

NoGroup == [agents |-> <<>>, rules |-> <<>>, open |-> FALSE]

\* body.split(/\r?\n/): the lines between "\n", a "\r" right before a "\n"
\* belonging to the separator
SplitLines(body) ==
    LET raw == split(body, "\n")
        n == Len(raw)
    IN  [i \in 1..n |->
            IF i < n /\ endsWith(raw[i], "\r")
            THEN SubSeq(raw[i], 1, Len(raw[i]) - 1)
            ELSE raw[i]]

\* l.replace(/#.*/, ""): the first "#" and what follows it up to a line
\* terminator are removed
StripComment(l) ==
    LET k == IndexFrom(l, "#", 1)
        r == IF k = 0 THEN 0 ELSE IndexFrom(l, "\r", k)
    IN  IF k = 0 THEN l
        ELSE SubSeq(l, 1, k - 1) \o (IF r = 0 THEN "" ELSE SubSeq(l, r, Len(l)))

NonEmpty(s) == s # ""
StripAndTrim(l) == trim(StripComment(l))

\* the cleaned, non-empty lines of a robots.txt body
RobotsLines(body) ==
    LET ls == SplitLines(body) IN
    SelectSeq([i \in 1..Len(ls) |-> StripAndTrim(ls[i])], NonEmpty)

\* a user-agent line that adds its agent to a current group that has no rule yet
OnUserAgent_Stack(st, value) ==
    IF st.current.open /\ Len(st.current.rules) = 0
    THEN [groups  |-> st.groups,
          current |-> [st.current EXCEPT !.agents = Append(@, toLowerCase(value))]]
    ELSE [groups  |-> IF st.current.open THEN Append(st.groups, st.current) ELSE st.groups,
          current |-> [agents |-> <<toLowerCase(value)>>, rules |-> <<>>, open |-> TRUE]]

\* a user-agent line that pushes the current group even when it has no rule
OnUserAgent_AlwaysPush(st, value) ==
    [groups  |-> IF st.current.open THEN Append(st.groups, st.current) ELSE st.groups,
     current |-> [agents |-> <<toLowerCase(value)>>, rules |-> <<>>, open |-> TRUE]]

\* a user-agent line: the current group is pushed if it has a rule, and a
\* new current group is opened
OnUserAgent(st, value) ==
    [groups  |-> IF st.current.open /\ Len(st.current.rules) > 0
                 THEN Append(st.groups, st.current) ELSE st.groups,
     current |-> [agents |-> <<toLowerCase(value)>>, rules |-> <<>>, open |-> TRUE]]

\* an allow or disallow line: a rule is appended to the current group, an
\* implicit "*" group being opened when there is none
OnRule(st, key, value) ==
    LET cur == IF st.current.open THEN st.current
               ELSE [agents |-> <<"*">>, rules |-> <<>>, open |-> TRUE]
    IN  [groups  |-> st.groups,
         current |-> [cur EXCEPT !.rules = Append(@, [type |-> key, path |-> value])]]

\* one iteration of the loop over the lines
ParseLine(st, line) ==
    LET parts == split(line, ":")
        rawKey == parts[1]
        rest == Tail(parts)
        key == trim(toLowerCase(rawKey))
        value == trim(join(rest, ":"))
    IN  IF rawKey = "" \/ Len(rest) = 0 THEN st
        ELSE IF key = "user-agent" THEN OnUserAgent(st, value)
        ELSE IF key = "allow" \/ key = "disallow" THEN OnRule(st, key, value)
        ELSE st

RECURSIVE ParseLoop(_, _, _)
ParseLoop(st, lines, i) ==
    IF i > Len(lines) THEN st ELSE ParseLoop(ParseLine(st, lines[i]), lines, i + 1)

\* the groups built from a robots.txt body
parseRobots(body) ==
    LET st == ParseLoop([groups |-> <<>>, current |-> NoGroup], RobotsLines(body), 1)
    IN  IF st.current.open THEN Append(st.groups, st.current) ELSE st.groups

HasAgent(g, a) == \E i \in 1..Len(g.agents) : g.agents[i] = a

\* groups.find(...): index of the first group naming agent a, 0 when none
FindGroup(groups, a) ==
    LET hits == {i \in 1..Len(groups) : HasAgent(groups[i], a)} IN
    IF hits = {} THEN 0 ELSE CHOOSE i \in hits : \A j \in hits : i <= j

\* the choice of the first group that names the agent or "*", whichever comes first
Applicable_FirstOfEither(groups, ua) ==
    LET hits == {i \in 1..Len(groups) :
                    HasAgent(groups[i], ua) \/ HasAgent(groups[i], "*")}
    IN  IF hits = {} THEN 0 ELSE Least(hits)

\* the group chosen for the agent: its own, else the "*" group, else none (0)
Applicable(groups, ua) ==
    IF FindGroup(groups, ua) # 0 THEN FindGroup(groups, ua) ELSE FindGroup(groups, "*")

NoBest == [type |-> "none", len |-> 0]

\* the update of best in which the last matching rule wins, whatever its length
BetterRule_LastMatch(best, r, path) ==
    IF r.path = "" THEN best
    ELSE IF startsWith(path, r.path)
         THEN [type |-> r.type, len |-> Len(r.path)]
         ELSE best

\* the update of best in which a match of the same length also replaces it
BetterRule_TieLast(best, r, path) ==
    IF r.path = "" THEN best
    ELSE IF startsWith(path, r.path)
         THEN IF best.type = "none" \/ Len(r.path) >= best.len
              THEN [type |-> r.type, len |-> Len(r.path)]
              ELSE best
         ELSE best

\* the update of best by one rule: a longer match replaces it
BetterRule(best, r, path) ==
    IF r.path = "" THEN best
    ELSE IF startsWith(path, r.path)
         THEN IF best.type = "none" \/ Len(r.path) > best.len
              THEN [type |-> r.type, len |-> Len(r.path)]
              ELSE best
         ELSE best

RECURSIVE BestLoop(_, _, _, _)
BestLoop(best, rules, path, i) ==
    IF i > Len(rules) THEN best
    ELSE BestLoop(BetterRule(best, rules[i], path), rules, path, i + 1)

\* the decision of fetchRobotsAllowed on a body that was read
robotsDecision(body, pathname, userAgent) ==
    LET groups == parseRobots(body)
        ua == toLowerCase(userAgent)
        g == Applicable(groups, ua)
        path == IF pathname = "" THEN "/" ELSE pathname
    IN  IF g = 0 THEN TRUE
        ELSE LET best == BestLoop(NoBest, groups[g].rules, path, 1)
             IN  IF best.type = "none" THEN TRUE ELSE best.type = "allow"

DefaultUserAgent == "content-agent"

-----------------------------------------------------------------------------
(* The passage ranker *)

MinParaLen == 60
SnippetLen == 600
DefaultMax == 10

\* the characters tokenize keeps: [a-z0-9\s]; every other one becomes a space
KeepOrSpace(c) == IF IsLowerAlpha(c) \/ IsDigit(c) \/ IsSpace(c) THEN c ELSE " "

\* String.prototype.replace(/[^a-z0-9\s]/g, " "), from index i on
RECURSIVE KeepFrom(_, _)
KeepFrom(s, i) ==
    IF i > Len(s) THEN ""
    ELSE IF i = Len(s) THEN KeepOrSpace(CharAt(s, i))
    ELSE LET m == (i + Len(s)) \div 2 IN
         KeepFrom(SubSeq(s, 1, m), i) \o KeepFrom(s, m + 1)

\* first index at or after i whose character is (want = TRUE) or is not
\* (want = FALSE) white space; Len(s) + 1 when there is none
ScanSpace(s, i, want) ==
    LET hits == {k \in i..Len(s) : IsSpace(CharAt(s, k)) = want}
    IN  IF hits = {} THEN Max(i, Len(s) + 1) ELSE Least(hits)

\* String.prototype.split(/\s+/)
RECURSIVE splitSpaces(_)
splitSpaces(s) ==
    LET k == ScanSpace(s, 1, TRUE) IN
    IF k > Len(s) THEN <<s>>
    ELSE <<SubSeq(s, 1, k - 1)>>
         \o splitSpaces(SubSeq(s, ScanSpace(s, k, FALSE), Len(s)))

LongToken(w) == Len(w) > 2

tokenize(s) ==
    SelectSeq(splitSpaces(KeepFrom(toLowerCase(s), 1)), LongToken)

\* first index at or after i whose character is not a newline
RECURSIVE SkipNewlines(_, _)
SkipNewlines(s, i) ==
    IF i <= Len(s) /\ CharAt(s, i) = "\n" THEN SkipNewlines(s, i + 1) ELSE i

\* String.prototype.split(/\n{2,}/)
RECURSIVE splitParagraphs(_)
splitParagraphs(s) ==
    LET k == IndexFrom(s, "\n\n", 1) IN
    IF k = 0 THEN <<s>>
    ELSE <<SubSeq(s, 1, k - 1)>>
         \o splitParagraphs(SubSeq(s, SkipNewlines(s, k), Len(s)))

\* a filter that keeps every paragraph
LongParagraph_Any(p) == TRUE

\* a filter that keeps the paragraphs of more than 50 characters
LongParagraph_Fifty(p) == Len(p) > 50

\* the filter of the paragraphs: (p) => p.length > 60
LongParagraph(p) == Len(p) > MinParaLen

\* the trimmed paragraphs the ranker scores
paras(text) ==
    LET ps == splitParagraphs(text) IN
    SelectSeq([i \in 1..Len(ps) |-> trim(ps[i])], LongParagraph)

\* t.reduce((acc, w) => acc + (qTokens.has(w) ? 1 : 0), 0)
RECURSIVE CountIn(_, _)
CountIn(t, qTokens) ==
    IF Len(t) = 0 THEN 0
    ELSE (IF t[1] \in qTokens THEN 1 ELSE 0) + CountIn(Tail(t), qTokens)

score(p, qTokens) == CountIn(tokenize(p), qTokens)

Positive(x) == x.score > 0

\* a comparator under which b also moves before an a of the same score
ComesAfter_TiesToo(a, b) == b.score - a.score >= 0

\* the comparator (a, b) => b.score - a.score: a stays before b unless positive
ComesAfter(a, b) == b.score - a.score > 0

\* x inserted into the sorted xs behind every element it does not precede
RECURSIVE InsertSorted(_, _)
InsertSorted(xs, x) ==
    IF Len(xs) = 0 THEN <<x>>
    ELSE IF ComesAfter(xs[Len(xs)], x)
         THEN Append(InsertSorted(SubSeq(xs, 1, Len(xs) - 1), x), xs[Len(xs)])
         ELSE Append(xs, x)

\* Array.prototype.sort with that comparator: a stable sort
RECURSIVE sortByScore(_)
sortByScore(xs) ==
    IF Len(xs) = 0 THEN <<>>
    ELSE InsertSorted(sortByScore(SubSeq(xs, 1, Len(xs) - 1)), xs[Len(xs)])

relevantPassages(text, question, max) ==
    LET qTokens == {tokenize(question)[i] : i \in 1..Len(tokenize(question))}
        ps == paras(text)
        scored == SelectSeq([i \in 1..Len(ps) |->
                               [p |-> ps[i], score |-> score(ps[i], qTokens)]],
                           Positive)
        top == SubSeq(sortByScore(scored), 1, Min(max, Len(scored)))
    IN  [i \in 1..Len(top) |-> [snippet |-> slice(top[i].p, SnippetLen), score |-> top[i].score]]

\* mainText ? mainText.split(/\s+/).length : 0
wordCount(mainText) == IF mainText = "" THEN 0 ELSE Len(splitSpaces(mainText))

-----------------------------------------------------------------------------
(* URL objects *)

\* new URL(url) for an absolute URL scheme://host/path that carries no
\* userinfo and no port: the scheme and the host are lower-cased, an IPv6
\* host keeps its brackets, an empty path becomes "/"
ParseURL(url) ==
    LET c == IndexFrom(url, ":", 1)
        rest == SubSeq(url, c + 3, Len(url))
        k == IndexFrom(rest, "/", 1)
        authority == IF k = 0 THEN rest ELSE SubSeq(rest, 1, k - 1)
    IN  [protocol |-> toLowerCase(SubSeq(url, 1, c)),
         hostname |-> toLowerCase(authority),
         pathname |-> IF k = 0 THEN "/" ELSE SubSeq(rest, k, Len(rest))]

\* URL.prototype.toString
URLToString(u) == u.protocol \o "//" \o u.hostname \o u.pathname

-----------------------------------------------------------------------------
(* browse_url.execute *)

\* invocations started in one behaviour of Spec, and of CacheSpec
MaxCalls == 1
MaxCacheCalls == 3
\* steps of the clock
MaxTicks == 2
\* invocations started in one behaviour of OwnSpec, of AgeSpec, of TextSpec
MaxOwnCalls == 2
MaxAgeCalls == 3
MaxTextCalls == 2

Procs == {1, 2}

CACHE_TTL_MS == 10 * 60 * 1000
FETCH_TIMEOUT_MS == 10 * 1000
MAX_PAGE_SIZE == 5 * 1024 * 1024

\* the step by which the clock advances
TickMs == CACHE_TTL_MS \div 2

URLs == {"https://example.com/private/secret",
         "ftp://example.com/other",
         "ftp://localhost/",
         "http://LocalHost/",
         "http://10.1.2.3/",
         "http://[::1]/",
         "http://169.254.169.254/latest"}

NoQuestion == [given |-> FALSE, text |-> ""]
Questions == {NoQuestion, [given |-> TRUE, text |-> "How does caching work?"]}

\* the truthiness of the optional question
Truthy(q) == q.given /\ q.text # ""

RobotsPrivate == "User-agent: *\nDisallow: /private\nAllow: /private/public"
RobotsDenyAgent == "# policy\nUser-agent: Content-Agent\nDisallow: /\n"
RobotsGarbage == "<html><body>404 not found</body></html>"

\* what the server may send as the body of robots.txt
RobotsBodies == {RobotsPrivate, RobotsDenyAgent, RobotsGarbage}

TextCaching ==
    "The page cache keeps every result for ten minutes; caching saves a second fetch."
    \o "\n\n"
    \o "Routers forward packets between networks and have nothing to say about it at all."

\* main texts as textContent delivers them: with white space around the
\* words, and of white space only
TextIndented == "\n  Two words\n"
TextBlank == " \n "

SmallLen == 900

\* what the server may send as a page: the length of its HTML, and what the
\* HTML parser and the readability extraction make of it (throws: one of
\* them, or the resolution of a link, raises)
Pages == {
    [htmlLen |-> SmallLen, title |-> "Caching", mainText |-> TextCaching, throws |-> FALSE],
    [htmlLen |-> SmallLen, title |-> "", mainText |-> "", throws |-> FALSE],
    [htmlLen |-> SmallLen, title |-> "", mainText |-> "", throws |-> TRUE],
    [htmlLen |-> MAX_PAGE_SIZE, title |-> "", mainText |-> "", throws |-> FALSE],
    [htmlLen |-> MAX_PAGE_SIZE + 1, title |-> "", mainText |-> "", throws |-> FALSE]}

\* pages whose main text carries white space that delimits no word
WhitePages == {
    [htmlLen |-> SmallLen, title |-> "Two", mainText |-> TextIndented, throws |-> FALSE],
    [htmlLen |-> SmallLen, title |-> "Blank", mainText |-> TextBlank, throws |-> FALSE]}

NoHeader == -1
\* the values of the Content-Length header of a page response
ContentLengths == {NoHeader} \cup {pg.htmlLen : pg \in Pages}

ErrScheme == "Only http/https URLs are supported."
ErrBlocked == "Blocked private/local address."
ErrRobots == "Fetching disallowed by robots.txt."
ErrSize == "Page exceeds 5MB limit."
ErrStatus == "HTTP status"
ErrFetch == "fetch failed"
ErrAbort == "The operation was aborted"
ErrExtract == "extraction failed"

\* the parsed URL of every input, and its cache key
Parsed == [url \in URLs |-> ParseURL(url)]
Key == [url \in URLs |-> URLToString(Parsed[url])]
Keys == {Key[url] : url \in URLs}

\* the result objects: the one an invocation builds is named by the number
\* of the invocation, and invocations are numbered from the last one down
Ids == 1..Max(Max(MaxCalls, MaxCacheCalls), Max(MaxOwnCalls, Max(MaxAgeCalls, MaxTextCalls)))

\* a scheme check that lets ftp: through as well
BadScheme_FtpToo(u) == u.protocol \notin {"http:", "https:", "ftp:"}

\* u.protocol !== "http:" && u.protocol !== "https:"
BadScheme(u) == u.protocol # "http:" /\ u.protocol # "https:"

\* the guard as execute applies it: to the hostname of the URL object
GuardOf == [url \in URLs |-> isPrivateHostname(Parsed[url].hostname)]
\* an execute that does not apply the guard
Blocked_Never(url) == FALSE

Blocked(url) == GuardOf[url]

\* the decision of the resolver on every body for every path, as execute
\* asks for it: for the default agent
DecisionOf ==
    [body \in RobotsBodies, path \in {Parsed[url].pathname : url \in URLs} |->
        robotsDecision(body, path, DefaultUserAgent)]

NoEntry == [at |-> -1, data |-> 0]

\* cache ? pageCache.get(key) : undefined
CacheGet(cache, store, key) == IF cache THEN store[key] ELSE NoEntry

\* a freshness test without expiry
Fresh_NoExpiry(cached, now) == cached # NoEntry

\* a freshness test with twice the TTL
Fresh_TwiceTTL(cached, now) == cached # NoEntry /\ now - cached.at < 2 * CACHE_TTL_MS

\* a freshness test that still accepts an entry whose age is the TTL
Fresh_Inclusive(cached, now) == cached # NoEntry /\ now - cached.at <= CACHE_TTL_MS

\* cached && now - cached.at < CACHE_TTL_MS
Fresh(cached, now) == cached # NoEntry /\ now - cached.at < CACHE_TTL_MS

\* the value stored with a result: { at: now, data: result }
CacheEntry(now, data) == [at |-> now, data |-> data]

\* a store that leaves an entry in place that is newer than the one to store
CacheSet_KeepNewer(cache, store, key, now, data) ==
    IF cache /\ store[key].at < now
    THEN [store EXCEPT ![key] = CacheEntry(now, data)] ELSE store

\* a store that does not ask whether caching was requested
CacheSet_Always(cache, store, key, now, data) ==
    [store EXCEPT ![key] = CacheEntry(now, data)]

\* if (cache) pageCache.set(key, { at: now, data: result })
CacheSet(cache, store, key, now, data) ==
    IF cache THEN [store EXCEPT ![key] = CacheEntry(now, data)] ELSE store

\* a resolver that denies when its timer aborted the request
FailOpen_ClosedOnAbort(why) == why # "abort"

\* if (!res.ok) return true, and the catch: what the resolver returns when
\* resolving the policy fails for the reason why
FailOpen(why) == TRUE

\* an execute that ignores the decision of the resolver
Denied_Never(allowed) == FALSE

\* if (!allowed) throw
Denied(allowed) == ~allowed

\* a pre-check that also rejects a declared length of exactly the limit
TooLong_Inclusive(cl) == cl # NoHeader /\ cl >= MAX_PAGE_SIZE

\* Number(cl) > 5 * 1024 * 1024, for a header that is present
TooLong(cl) == cl # NoHeader /\ cl > MAX_PAGE_SIZE

\* html.length > 5 * 1024 * 1024
TooBig(htmlLen) == htmlLen > MAX_PAGE_SIZE

\* question ? relevantPassages(mainText, question) : []
PassagesFor(mainText, q) ==
    IF Truthy(q) THEN relevantPassages(mainText, q.text, DefaultMax) ELSE <<>>

\* the ranking of every page text against every question, computed once
Ranked ==
    [t \in {pg.mainText : pg \in Pages \cup WhitePages}, q \in Questions |->
        PassagesFor(t, q)]

\* what execute derives from the main text of every page
Derived ==
    [t \in {pg.mainText : pg \in Pages \cup WhitePages} |->
        [wordCount |-> wordCount(t), excerpt |-> slice(t, 1000)]]

\* the result object built from a page
Result(c, pg) ==
    [url |-> c.key,
     title |-> pg.title,
     wordCount |-> Derived[pg.mainText].wordCount,
     excerpt |-> Derived[pg.mainText].excerpt,
     mainText |-> pg.mainText,
     relevantPassages |-> Ranked[pg.mainText, c.question]]

NoObject ==
    [url |-> "", title |-> "", wordCount |-> 0, excerpt |-> "", mainText |-> "",
     relevantPassages |-> <<>>]

\* the objects the cache refers to
Refs(store) == {store[k].data : k \in Keys} \ {0}

\* the heap without the objects that neither the cache nor the caller of the
\* last invocation holds
Collect(objs, store, data) ==
    [i \in Ids |-> IF i \in Refs(store) \cup {data} THEN objs[i] ELSE NoObject]

NoBefore ==
    [valid |-> FALSE, url |-> "", cache |-> FALSE, ok |-> FALSE, hit |-> FALSE,
     now |-> 0, data |-> 0]

\* what an invocation that starts remembers of the one that completed last
Snapshot(c) ==
    IF c.valid
    THEN [valid |-> TRUE, url |-> c.url, cache |-> c.cache, ok |-> c.result = "ok",
          hit |-> c.hit, now |-> c.now, data |-> c.data]
    ELSE NoBefore

IdleCall ==
    [valid |-> FALSE, seq |-> 0, before |-> NoBefore,
     url |-> "", question |-> NoQuestion, cache |-> FALSE,
     key |-> "", hostname |-> "", pathname |-> "", now |-> 0,
     guardRan |-> FALSE, cacheRead |-> FALSE, cacheWrote |-> FALSE,
     robotsReqs |-> 0, pageReqs |-> 0, timer |-> "off",
     robots |-> "none", allowed |-> "unknown",
     contentLength |-> NoHeader, bodyRead |-> 0,
     hit |-> FALSE, result |-> "none", error |-> "", data |-> 0]

\* the history of the times at which the pages of the entries were read,
\* kept or not
History(kept) == fetchedAt = [kept |-> kept, at |-> [k \in Keys |-> NoEntry.at]]

\* the history after a step that leaves the cache store: the entries put
\* into it hold a page read now
ReadNow(store) ==
    [k \in Keys |-> IF store[k] # pageCache[k] THEN clock ELSE fetchedAt.at[k]]

\* the module as loaded: an empty cache, nothing in flight
Loaded(n) ==
    /\ clock = 0
    /\ pageCache = [k \in Keys |-> NoEntry]
    /\ heap = [i \in Ids |-> NoObject]
    /\ pc = [p \in Procs |-> "idle"]
    /\ call = [p \in Procs |-> IdleCall]
    /\ prev = IdleCall
    /\ callsLeft = n

NoHost ==
    /\ host = ""
    /\ hostResult = [done |-> FALSE, forbidden |-> FALSE]

NoRobots ==
    /\ robotsIn = [body |-> "", path |-> "", ua |-> ""]
    /\ robotsOut = [done |-> FALSE, allowed |-> FALSE, groups |-> <<>>]

NoRank ==
    /\ rankIn = [text |-> "", question |-> "", max |-> 0]
    /\ rankOut = [done |-> FALSE, passages |-> <<>>]

InitCalls(n) == Loaded(n) /\ History(FALSE) /\ NoHost /\ NoRobots /\ NoRank

Init == InitCalls(MaxCalls)

PureVars == <<host, hostResult, robotsIn, robotsOut, rankIn, rankOut>>

\* the invocation of slot p ends, with an error or with the result object
\* data, leaving the cache store and the heap objs; an entry it has put into
\* the store holds the page it has just read
Finish(p, c, err, data, store, objs) ==
    /\ call' = [call EXCEPT ![p] = IdleCall]
    /\ pc' = [pc EXCEPT ![p] = "idle"]
    /\ prev' = [c EXCEPT !.valid = TRUE, !.timer = "off",
                         !.result = IF err = "" THEN "ok" ELSE "error",
                         !.error = err, !.data = data]
    /\ pageCache' = store
    /\ fetchedAt' = IF fetchedAt.kept THEN [fetchedAt EXCEPT !.at = ReadNow(store)]
                     ELSE fetchedAt
    /\ heap' = Collect(objs, store, data)

Fail(p, c, err) == Finish(p, c, err, 0, pageCache, heap)

\* the page request issued together with the robots request
IssueRobots_WithPage(p, c) ==
    /\ call' = [call EXCEPT ![p] = [c EXCEPT !.robotsReqs = @ + 1, !.pageReqs = @ + 1,
                                              !.timer = "armed"]]
    /\ pc' = [pc EXCEPT ![p] = "robots_fetch"]
    /\ UNCHANGED <<prev, pageCache, fetchedAt, heap>>

\* fetch(robotsUrl, { signal }) is issued and execute suspends on it
IssueRobots(p, c) ==
    /\ call' = [call EXCEPT ![p] = [c EXCEPT !.robotsReqs = @ + 1, !.timer = "armed"]]
    /\ pc' = [pc EXCEPT ![p] = "robots_fetch"]
    /\ UNCHANGED <<prev, pageCache, fetchedAt, heap>>

\* fetchRobotsAllowed returned allowed: execute throws on a denial, and else
\* issues fetch(u) and suspends on it
AfterRobots(p, c, allowed, why) ==
    LET c1 == [c EXCEPT !.robots = why,
                        !.timer = "off",
                        !.allowed = IF allowed THEN "yes" ELSE "no"] IN
    IF Denied(allowed)
    THEN Fail(p, c1, ErrRobots)
    ELSE /\ call' = [call EXCEPT ![p] = [c1 EXCEPT !.pageReqs = @ + 1, !.timer = "armed"]]
         /\ pc' = [pc EXCEPT ![p] = "page_fetch"]
         /\ UNCHANGED <<prev, pageCache, fetchedAt, heap>>

\* execute is called: the URL is parsed, the scheme and the host are checked,
\* the cache is looked up, and on a miss the robots request is issued
Start(p, url, question, cache) ==
    /\ pc[p] = "idle"
    /\ \A q \in Procs : q < p => pc[q] # "idle"
    /\ callsLeft > 0
    /\ callsLeft' = callsLeft - 1
    /\ LET u == Parsed[url]
           c0 == [IdleCall EXCEPT !.valid = TRUE, !.seq = callsLeft,
                                  !.before = Snapshot(prev),
                                  !.url = url, !.question = question,
                                  !.cache = cache, !.key = Key[url],
                                  !.hostname = u.hostname, !.pathname = u.pathname]
       IN  IF BadScheme(u)
           THEN Fail(p, c0, ErrScheme)
           ELSE IF Blocked(url)
           THEN Fail(p, [c0 EXCEPT !.guardRan = TRUE], ErrBlocked)
           ELSE LET c1 == [c0 EXCEPT !.guardRan = TRUE, !.now = clock,
                                     !.cacheRead = cache]
                    cached == CacheGet(cache, pageCache, c1.key)
                IN  IF Fresh(cached, c1.now)
                    THEN Finish(p, [c1 EXCEPT !.hit = TRUE], "", cached.data,
                                pageCache, heap)
                    ELSE IssueRobots(p, c1)
    /\ UNCHANGED <<PureVars, clock>>

\* the robots request settles: a network error, a non-2xx status, or a 2xx
\* status, after which the timer is cleared and execute suspends on the body
RobotsResponse(p, r) ==
    /\ pc[p] = "robots_fetch"
    /\ IF r = "ok"
       THEN /\ pc' = [pc EXCEPT ![p] = "robots_body"]
            /\ call' = [call EXCEPT ![p].timer = "off"]
            /\ UNCHANGED <<prev, pageCache, fetchedAt, heap>>
       ELSE AfterRobots(p, call[p], FailOpen(r), r)
    /\ UNCHANGED <<PureVars, clock, callsLeft>>

\* the 10 s timer aborts the robots request
RobotsAbort(p) ==
    /\ pc[p] = "robots_fetch"
    /\ call[p].timer = "due"
    /\ AfterRobots(p, call[p], FailOpen("abort"), "abort")
    /\ UNCHANGED <<PureVars, clock, callsLeft>>

\* the body of robots.txt arrives and is parsed
RobotsBody(p, body) ==
    /\ pc[p] = "robots_body"
    /\ AfterRobots(p, call[p], DecisionOf[body, call[p].pathname], "parsed")
    /\ UNCHANGED <<PureVars, clock, callsLeft>>

\* reading the body of robots.txt fails
RobotsBodyError(p) ==
    /\ pc[p] = "robots_body"
    /\ AfterRobots(p, call[p], FailOpen("bodyerr"), "bodyerr")
    /\ UNCHANGED <<PureVars, clock, callsLeft>>

\* the page request settles: a network error, a non-2xx status, or a 2xx
\* status with its Content-Length header
PageResponse(p, r, cl) ==
    /\ pc[p] = "page_fetch"
    /\ LET c0 == [call[p] EXCEPT !.timer = "off"]
           c == [c0 EXCEPT !.contentLength = cl]
       IN  IF r = "neterr" THEN Fail(p, c0, ErrFetch)
           ELSE IF r = "status" THEN Fail(p, c0, ErrStatus)
           ELSE IF TooLong(cl) THEN Fail(p, c, ErrSize)
           ELSE /\ call' = [call EXCEPT ![p] = c]
                /\ pc' = [pc EXCEPT ![p] = "page_body"]
                /\ UNCHANGED <<prev, pageCache, fetchedAt, heap>>
    /\ UNCHANGED <<PureVars, clock, callsLeft>>

\* the 10 s timer aborts the page request
PageAbort(p) ==
    /\ pc[p] = "page_fetch"
    /\ call[p].timer = "due"
    /\ Fail(p, call[p], ErrAbort)
    /\ UNCHANGED <<PureVars, clock, callsLeft>>

\* res.text() delivers the page: size check, extraction, ranking, cache
\* store, return
PageBody(p, pg) ==
    /\ pc[p] = "page_body"
    /\ call[p].contentLength \in {NoHeader, pg.htmlLen}
    /\ LET c == [call[p] EXCEPT !.bodyRead = pg.htmlLen]
           id == c.seq
       IN  IF TooBig(pg.htmlLen) THEN Fail(p, c, ErrSize)
           ELSE IF pg.throws THEN Fail(p, c, ErrExtract)
           ELSE Finish(p, [c EXCEPT !.cacheWrote = c.cache], "", id,
                       CacheSet(c.cache, pageCache, c.key, c.now, id),
                       [heap EXCEPT ![id] = Result(c, pg)])
    /\ UNCHANGED <<PureVars, clock, callsLeft>>

\* time passes by one step, which is longer than the 10 s of the timers:
\* every timer that is armed comes due
Tick ==
    /\ clock < MaxTicks * TickMs
    /\ clock' = clock + TickMs
    /\ call' = [p \in Procs |->
                   IF call[p].timer = "armed" /\ TickMs >= FETCH_TIMEOUT_MS
                   THEN [call[p] EXCEPT !.timer = "due"] ELSE call[p]]
    /\ UNCHANGED <<PureVars, pageCache, fetchedAt, heap, pc, prev, callsLeft>>

\* one invocation at a time and without a question, of any URL, against
\* servers that may answer in every way
Next ==
    \/ \E url \in URLs, cache \in BOOLEAN : Start(1, url, NoQuestion, cache)
    \/ \E r \in {"neterr", "status", "ok"} : RobotsResponse(1, r)
    \/ RobotsAbort(1)
    \/ \E body \in RobotsBodies : RobotsBody(1, body)
    \/ RobotsBodyError(1)
    \/ \E r \in {"neterr", "status", "ok"}, cl \in ContentLengths : PageResponse(1, r, cl)
    \/ PageAbort(1)
    \/ \E pg \in Pages : PageBody(1, pg)
    \/ Tick

Spec == Init /\ [][Next]_vars

-----------------------------------------------------------------------------
(* The same with the timers of Node: a timer that is armed comes due, and  *)
(* one that is due runs its callback, unless it is cleared first           *)

\* the 10 s of the timer of slot p pass: less than one step of the clock
Elapse(p) ==
    /\ pc[p] \in {"robots_fetch", "page_fetch"}
    /\ call[p].timer = "armed"
    /\ call' = [call EXCEPT ![p].timer = "due"]
    /\ UNCHANGED <<PureVars, clock, pageCache, fetchedAt, heap, pc, prev, callsLeft>>

LiveNext == Next \/ Elapse(1)

\* the event loop runs every timer; nothing obliges a server to answer
TimersRun ==
    /\ WF_vars(Elapse(1))
    /\ WF_vars(RobotsAbort(1))
    /\ WF_vars(PageAbort(1))

LiveSpec == Init /\ [][LiveNext]_vars /\ TimersRun

-----------------------------------------------------------------------------
(* Concurrent invocations for one URL, with and without a question and    *)
(* the cache, of a server that publishes no robots.txt and answers the     *)
(* page request, if at all, without a Content-Length header                *)

CacheURL == "https://example.com/private/secret"
CacheInputs ==
    {<<CacheURL, q, TRUE>> : q \in Questions} \cup {<<CacheURL, NoQuestion, FALSE>>}
CachePages == {pg \in Pages : pg.htmlLen = SmallLen /\ ~pg.throws}

CacheInit == InitCalls(MaxCacheCalls)

CacheNext ==
    \/ \E p \in Procs, in \in CacheInputs : Start(p, in[1], in[2], in[3])
    \/ \E p \in Procs : RobotsResponse(p, "status")
    \/ \E p \in Procs : PageResponse(p, "ok", NoHeader)
    \/ \E p \in Procs : PageAbort(p)
    \/ \E p \in Procs, pg \in CachePages : PageBody(p, pg)
    \/ Tick

CacheSpec == CacheInit /\ [][CacheNext]_vars

-----------------------------------------------------------------------------
(* Concurrent invocations for one URL with the cache enabled, with the     *)
(* history of the times at which the pages were read                       *)

AgePages == {pg \in CachePages : pg.mainText # ""}

AgeInit == Loaded(MaxAgeCalls) /\ History(TRUE) /\ NoHost /\ NoRobots /\ NoRank

AgeNext ==
    \/ \E p \in Procs : Start(p, CacheURL, NoQuestion, TRUE)
    \/ \E p \in Procs : RobotsResponse(p, "status")
    \/ \E p \in Procs : PageResponse(p, "ok", NoHeader)
    \/ \E p \in Procs, pg \in AgePages : PageBody(p, pg)
    \/ Tick

AgeSpec == AgeInit /\ [][AgeNext]_vars

-----------------------------------------------------------------------------
(* Sequential invocations for one URL with the cache enabled, by callers   *)
(* that may write to the object they were handed                           *)

\* what the caller of invocation n writes into the title of its result
Marker(n) == "changed by the caller of " \o IntToStr(n)

\* the caller of the invocation that returned last assigns to a property of
\* the object it received: execute returned the object itself, so the
\* assignment is to the object on the heap
Mutate ==
    /\ prev.valid
    /\ prev.result = "ok"
    /\ heap[prev.data].title # Marker(prev.seq)
    /\ heap' = [heap EXCEPT ![prev.data].title = Marker(prev.seq)]
    /\ UNCHANGED <<PureVars, clock, pageCache, fetchedAt, pc, call, prev, callsLeft>>

OwnInit == InitCalls(MaxOwnCalls)

OwnNext ==
    \/ \E q \in Questions : Start(1, CacheURL, q, TRUE)
    \/ RobotsResponse(1, "status")
    \/ PageResponse(1, "ok", NoHeader)
    \/ \E pg \in CachePages : PageBody(1, pg)
    \/ Tick
    \/ Mutate

OwnSpec == OwnInit /\ [][OwnNext]_vars

-----------------------------------------------------------------------------
(* Sequential invocations for one URL of a server whose pages differ in the *)
(* white space of their main text                                          *)

TextPages == CachePages \cup WhitePages

TextInit == InitCalls(MaxTextCalls)

TextNext ==
    \/ \E cache \in BOOLEAN : Start(1, CacheURL, NoQuestion, cache)
    \/ RobotsResponse(1, "status")
    \/ PageResponse(1, "ok", NoHeader)
    \/ \E pg \in TextPages : PageBody(1, pg)
    \/ Tick

TextSpec == TextInit /\ [][TextNext]_vars

-----------------------------------------------------------------------------
(* The guard alone: isPrivateHostname applied to a hostname *)

FirstOctets == {0, 9, 10, 11, 126, 127, 128, 169, 171, 172, 173, 191, 192, 193, 255}
SecondOctets == {0, 15, 16, 17, 30, 31, 32, 167, 168, 169, 254, 255}

\* the dotted quad a.b.c.d
Quad(a, b, c, d) ==
    IntToStr(a) \o "." \o IntToStr(b) \o "." \o IntToStr(c) \o "." \o IntToStr(d)

GuardHosts ==
    {"localhost", "127.0.0.1", "0.0.0.0", "::1", "foo.local", "10.1.2.3",
     "172.20.5.5", "192.168.1.1", "8.8.8.8", "example.com",
     "LOCALHOST", "Printer.Local", "[::1]", "localhost.", "local", "fe80::1",
     "169.254.169.254", "10.example.com", "172.16.example.com", "1.2.3", "010.1.2.3"}
    \cup {Quad(a, b, 0, 1) : a \in FirstOctets, b \in SecondOctets}

GuardInit ==
    /\ Loaded(0)
    /\ History(FALSE)
    /\ NoRobots
    /\ NoRank
    /\ host \in GuardHosts
    /\ hostResult = [done |-> FALSE, forbidden |-> FALSE]

Classify ==
    /\ ~hostResult.done
    /\ hostResult' = [done |-> TRUE, forbidden |-> isPrivateHostname(host)]
    /\ UNCHANGED <<host, robotsIn, robotsOut, rankIn, rankOut, clock, pageCache, fetchedAt,
                   heap, pc, call, prev, callsLeft>>

GuardNext == Classify

GuardSpec == GuardInit /\ [][GuardNext]_vars

-----------------------------------------------------------------------------
(* The resolver alone: the decision of fetchRobotsAllowed on a body *)

RobotsPrivateRev == "User-agent: *\nAllow: /private/public\nDisallow: /private"
RobotsTwoGroups ==
    "User-agent: *\nDisallow: /\n\nUser-agent: content-agent\nAllow: /private\nDisallow: /other\n"
RobotsSameAgent ==
    "User-agent: *\nDisallow: /other\nUser-agent: *\nDisallow: /private\n"
RobotsNoAgent == "Disallow: /private/secret\r\nAllow: /private # but not the secret\r\n"
RobotsStacked == "User-agent: content-agent\nUser-agent: otherbot\nDisallow: /\n"
RobotsTie == "User-agent: *\nAllow: /other\nDisallow: /other\nDisallow:\nSitemap: /s.xml\n"
RobotsEmpty == ""
RobotsTwice ==
    "User-agent: content-agent\nDisallow: /other\nUser-agent: *\nAllow: /\nUser-agent: content-agent\nDisallow: /private\n"
RobotsOdd ==
    "User-agent: *\n: stray\nCrawl-delay: 5\nnonsense\nDisallow: /other\nAllow : /other/x\nHost: a:b\n"

ResolverBodies ==
    {RobotsPrivate, RobotsPrivateRev, RobotsDenyAgent, RobotsGarbage, RobotsTwoGroups,
     RobotsSameAgent, RobotsNoAgent, RobotsStacked, RobotsTie, RobotsEmpty,
     RobotsTwice, RobotsOdd}
ResolverPaths == {"/private/secret", "/private/public/x", "/other", "/", ""}
ResolverAgents == {"content-agent", "OtherBot"}

RobotsInit ==
    /\ Loaded(0)
    /\ History(FALSE)
    /\ NoHost
    /\ NoRank
    /\ robotsIn \in [body : ResolverBodies, path : ResolverPaths, ua : ResolverAgents]
    /\ robotsOut = [done |-> FALSE, allowed |-> FALSE, groups |-> <<>>]

Resolve ==
    /\ ~robotsOut.done
    /\ robotsOut' = [done |-> TRUE,
                     allowed |-> robotsDecision(robotsIn.body, robotsIn.path, robotsIn.ua),
                     groups |-> parseRobots(robotsIn.body)]
    /\ UNCHANGED <<host, hostResult, robotsIn, rankIn, rankOut, clock, pageCache, fetchedAt,
                   heap, pc, call, prev, callsLeft>>

RobotsNext == Resolve

RobotsSpec == RobotsInit /\ [][RobotsNext]_vars

-----------------------------------------------------------------------------
(* The ranker alone: relevantPassages applied to a text, a question and a  *)
(* maximum                                                                 *)

\* n letters that make no token of any question
RECURSIVE Filler(_)
Filler(n) ==
    IF n <= 0 THEN ""
    ELSE IF n = 1 THEN "z"
    ELSE Filler(n \div 2) \o Filler(n - n \div 2)

\* a paragraph of exactly n characters that starts with head
Padded(head, n) == head \o " " \o Filler(n - Len(head) - 1)

ExampleText == "Para one about caching.\n\nPara two about routers."

\* paragraphs of 59, 60 and 61 characters once trimmed, each about caching
EdgeText ==
    "  " \o Padded("Short one on caching", MinParaLen - 1) \o " \n\n"
    \o Padded("Exact one on caching", MinParaLen) \o "\n\n\n"
    \o Padded("Above one on caching", MinParaLen + 1)

\* more paragraphs than the default maximum, all about caching, two of them
\* about routers too
ManyParagraphs ==
    [i \in 1..(DefaultMax + 1) |->
        Padded("Paragraph " \o IntToStr(i) \o " on caching"
                   \o (IF i \in {3, 7} THEN " and routers" ELSE ""),
               MinParaLen + 2)]

ManyText == join(ManyParagraphs, "\n\n")

\* a paragraph longer than a snippet, and a short one
HugeText ==
    Padded("A very long paragraph on caching", SnippetLen + 50)
    \o "\n\n" \o "Not long."

RankTexts == {ExampleText, TextCaching, EdgeText, ManyText, HugeText}
RankQuestions == {"caching", "caching routers", "How does caching work?", ""}
RankMaxes == {1, 2, DefaultMax}

RankInit ==
    /\ Loaded(0)
    /\ History(FALSE)
    /\ NoHost
    /\ NoRobots
    /\ rankIn \in [text : RankTexts, question : RankQuestions, max : RankMaxes]
    /\ rankOut = [done |-> FALSE, passages |-> <<>>]

Rank ==
    /\ ~rankOut.done
    /\ rankOut' = [done |-> TRUE,
                   passages |-> relevantPassages(rankIn.text, rankIn.question, rankIn.max)]
    /\ UNCHANGED <<host, hostResult, robotsIn, robotsOut, rankIn, clock, pageCache, fetchedAt,
                   heap, pc, call, prev, callsLeft>>

RankNext == Rank

RankSpec == RankInit /\ [][RankNext]_vars

-----------------------------------------------------------------------------
(* Properties of execute (fetch_and_analyze), checked on Spec *)

\* the invocations that can be observed: those in flight and the one that
\* completed last
Seen ==
    {call[p] : p \in {q \in Procs : pc[q] # "idle"}}
        \cup (IF prev.valid THEN {prev} ELSE {})

NoRequest(c) == c.robotsReqs = 0 /\ c.pageReqs = 0

\* C1: an invocation whose URL has an http(s) scheme and a hostname the guard
\* classifies forbidden ends with the blocked-address error, and issues no
\* robots.txt request and no page request and neither reads nor writes the
\* cache
C1_BlockedBeforeIO ==
    \A c \in Seen :
        (Parsed[c.url].protocol \in {"http:", "https:"}
            /\ GuardOf[c.url])
        => /\ c.result = "error"
           /\ c.error = ErrBlocked
           /\ NoRequest(c)
           /\ ~c.cacheRead
           /\ ~c.cacheWrote

\* an invocation for http://10.1.2.3/ with the cache enabled has ended blocked
C1_Witness ==
    /\ prev.valid
    /\ prev.url = "http://10.1.2.3/"
    /\ prev.cache
    /\ prev.error = ErrBlocked

\* the octets of a dotted quad
Octets(h) == LET parts == split(h, ".") IN [i \in 1..Len(parts) |-> parseInt(parts[i])]

\* h, the hostname of a URL object, is a literal address of private, loopback
\* or link-local network space: 10/8, 127/8, 169.254/16, 172.16/12,
\* 192.168/16, and in IPv6 ::1, fe80::/10 and fc00::/7
PrivateSpace(h) ==
    \/ /\ IsIPv4(h)
       /\ LET o == Octets(h) IN
          \/ o[1] = 10
          \/ o[1] = 127
          \/ o[1] = 169 /\ o[2] = 254
          \/ o[1] = 172 /\ o[2] >= 16 /\ o[2] <= 31
          \/ o[1] = 192 /\ o[2] = 168
    \/ /\ startsWith(h, "[")
       /\ \/ h = "[::1]"
          \/ \E pre \in {"[fe8", "[fe9", "[fea", "[feb", "[fc", "[fd"} : startsWith(h, pre)

PrivateSpaceOf == [url \in URLs |-> PrivateSpace(Parsed[url].hostname)]

\* C2: no request, for robots.txt or for the page, is issued to a host that is
\* a literal address of private, loopback or link-local network space
C2_NoRequestToPrivateSpace ==
    \A c \in Seen : PrivateSpaceOf[c.url] => NoRequest(c)

\* C4: an invocation for http://[::1]/ ends with the blocked-address error
\* having issued no request and not read the cache
C4_Ipv6LoopbackBlocked ==
    \A c \in Seen :
        c.url = "http://[::1]/"
        => /\ c.result = "error"
           /\ c.error = ErrBlocked
           /\ NoRequest(c)
           /\ ~c.cacheRead

\* C5: an invocation whose URL has a scheme other than http and https ends
\* with the scheme error, the guard not having run, the cache not having been
\* read and no request having been issued
C5_SchemeFirst ==
    \A c \in Seen :
        Parsed[c.url].protocol \notin {"http:", "https:"}
        => /\ c.result = "error"
           /\ c.error = ErrScheme
           /\ ~c.guardRan
           /\ ~c.cacheRead
           /\ ~c.cacheWrote
           /\ NoRequest(c)

\* an ftp URL for a forbidden host, with the cache enabled, has been rejected
\* for its scheme
C5_Witness ==
    /\ prev.valid
    /\ prev.url = "ftp://localhost/"
    /\ prev.cache
    /\ prev.error = ErrScheme

RobotsFailures == {"neterr", "status", "abort", "bodyerr"}

\* C6: when resolving the robots policy failed (network error, abort by the
\* timer, non-2xx status, failure while reading the body), the resolver
\* returned allowed, the page request was issued, and the invocation does not
\* end with the robots error
C6_RobotsFailOpen ==
    \A c \in Seen :
        c.robots \in RobotsFailures
        => /\ c.allowed = "yes"
           /\ c.pageReqs = 1
           /\ c.error # ErrRobots

\* an invocation whose robots request was aborted by the timer has returned
\* a result
C6_Witness ==
    /\ prev.valid
    /\ prev.robots = "abort"
    /\ prev.pageReqs = 1
    /\ prev.result = "ok"

\* C7: an invocation the resolved robots policy denies has ended, with the
\* robots error, after one robots request, without a page request and
\* without a cache store
C7_DenialBeforePage ==
    \A c \in Seen :
        c.allowed = "no"
        => /\ c.result = "error"
           /\ c.error = ErrRobots
           /\ c.robotsReqs = 1
           /\ c.pageReqs = 0
           /\ ~c.cacheWrote
           /\ (c.cache => pageCache[c.key] = NoEntry \/ pageCache[c.key].data # c.seq)

\* an invocation with the cache enabled was denied by a robots.txt that was
\* fetched and parsed
C7_Witness ==
    /\ prev.valid
    /\ prev.cache
    /\ prev.robots = "parsed"
    /\ prev.error = ErrRobots

\* C12: a step changes the cache only by completing an invocation that
\* fetched and analysed the page successfully with caching requested, and
\* then only by putting that invocation's entry under its key; and an
\* invocation that ended with an error returned no object
C12_OnlySuccessStores ==
    [][/\ pageCache' # pageCache
          => /\ prev'.valid
             /\ prev'.result = "ok"
             /\ prev'.cache
             /\ ~prev'.hit
             /\ pc' # pc
             /\ pageCache' = [pageCache EXCEPT ![prev'.key] =
                                 [at |-> prev'.now, data |-> prev'.data]]
       /\ prev'.result = "error" => prev'.data = 0]_vars

\* an invocation with caching requested failed at the last stage, the
\* extraction, and the cache is as it was, empty
C12_Witness ==
    /\ prev.valid
    /\ prev.cache
    /\ prev.error = ErrExtract
    /\ \A k \in Keys : pageCache[k] = NoEntry

\* C15: no invocation reads more than 5 MB of the body of a page
C15_ReadsAtMostFiveMB ==
    \A c \in Seen : c.bodyRead <= MAX_PAGE_SIZE

\* C16: an invocation whose page response declared a Content-Length above
\* 5 MB has ended with the size error without having read any of the body,
\* and one whose response declared exactly 5 MB was not ended by the
\* pre-check
C16_PreCheckBeforeBody ==
    \A c \in Seen :
        /\ (c.contentLength # NoHeader /\ c.contentLength > 5 * 1024 * 1024)
           => /\ c.result = "error"
              /\ c.error = ErrSize
              /\ c.bodyRead = 0
        /\ c.contentLength = 5 * 1024 * 1024
           => ~(c.error = ErrSize /\ c.bodyRead = 0)

\* a response that declared one more than 5 MB has been rejected unread
C16_Witness ==
    /\ prev.valid
    /\ prev.contentLength = 5 * 1024 * 1024 + 1
    /\ prev.error = ErrSize
    /\ prev.bodyRead = 0

\* C17: an invocation issues at most one robots.txt request and at most one
\* page request, the page request only once the robots request has
\* resolved, and an invocation in flight has met no failure: the first
\* failure ended it
C17_TwoRequestsNoRetry ==
    /\ \A c \in Seen :
           /\ c.robotsReqs <= 1
           /\ c.pageReqs <= 1
           /\ c.pageReqs = 1 => (c.robotsReqs = 1 /\ c.robots # "none")
    /\ \A p \in Procs : pc[p] # "idle" => call[p].error = "" /\ call[p].result = "none"

\* an invocation has failed at the page stage after one request of each kind
C17_Witness ==
    /\ prev.valid
    /\ prev.error = ErrStatus
    /\ prev.robotsReqs = 1
    /\ prev.pageReqs = 1

-----------------------------------------------------------------------------
(* Termination of execute, checked on LiveSpec *)

\* C14: every invocation that has started eventually ends, with a result or
\* with an error, whatever the servers do
C14_EveryInvocationEnds == (pc[1] # "idle") ~> (pc[1] = "idle")

-----------------------------------------------------------------------------
(* Properties of isPrivateHostname, checked on GuardSpec *)

\* C3: the guard returns forbidden for localhost, 127.0.0.1, 0.0.0.0, ::1,
\* foo.local, 10.1.2.3, 172.20.5.5 and 192.168.1.1, and not forbidden for
\* 8.8.8.8 and example.com
C3_GuardExamples ==
    hostResult.done =>
        /\ host \in {"localhost", "127.0.0.1", "0.0.0.0", "::1", "foo.local",
                     "10.1.2.3", "172.20.5.5", "192.168.1.1"}
           => hostResult.forbidden
        /\ host \in {"8.8.8.8", "example.com"} => ~hostResult.forbidden

\* 172.20.5.5 has been classified forbidden
C3_Witness ==
    /\ hostResult.done
    /\ host = "172.20.5.5"
    /\ hostResult.forbidden

\* C21: a literal IPv4 address a.b.c.d is classified forbidden exactly when
\* a = 10, or a = 127, or a = 192 and b = 168, or a = 172 and 16 <= b <= 31,
\* or the address is 0.0.0.0
C21_Ipv4Blocks ==
    (hostResult.done /\ IsIPv4(host)) =>
        LET o == Octets(host) IN
        hostResult.forbidden <=>
            \/ o[1] = 10
            \/ o[1] = 127
            \/ o[1] = 192 /\ o[2] = 168
            \/ o[1] = 172 /\ o[2] >= 16 /\ o[2] <= 31
            \/ host = "0.0.0.0"

\* 172.31.0.1, at the upper edge of the 172 block, has been classified forbidden
C21_Witness ==
    /\ hostResult.done
    /\ host = Quad(172, 31, 0, 1)
    /\ hostResult.forbidden

-----------------------------------------------------------------------------
(* Properties of fetchRobotsAllowed, checked on RobotsSpec *)

\* C8: for a robots.txt whose only group is User-agent: * with the rules
\* Disallow: /private and Allow: /private/public, in either order, the
\* resolver returns disallowed for /private/secret, allowed for
\* /private/public/x and allowed for /other
C8_LongestMatchWins ==
    (robotsOut.done /\ robotsIn.body \in {RobotsPrivate, RobotsPrivateRev})
    => /\ robotsIn.path = "/private/secret" => ~robotsOut.allowed
       /\ robotsIn.path = "/private/public/x" => robotsOut.allowed
       /\ robotsIn.path = "/other" => robotsOut.allowed

\* with Allow declared before Disallow, /private/public/x has been allowed
C8_Witness ==
    /\ robotsOut.done
    /\ robotsIn.body = RobotsPrivateRev
    /\ robotsIn.path = "/private/public/x"
    /\ robotsOut.allowed

\* the path the rules are matched against
TargetPath == IF robotsIn.path = "" THEN "/" ELSE robotsIn.path

\* the positions of the groups whose agent is a
GroupsOf(a) == {i \in 1..Len(robotsOut.groups) : robotsOut.groups[i].agents = <<a>>}

\* the one group whose rules apply: the first of the caller's own agent, else
\* the first wildcard group, else none (0)
TheGroup ==
    LET ua == toLowerCase(robotsIn.ua) IN
    IF GroupsOf(ua) # {} THEN Least(GroupsOf(ua))
    ELSE IF GroupsOf("*") # {} THEN Least(GroupsOf("*"))
    ELSE 0

\* C22: the decision is taken from the rules of exactly one group, the first
\* group whose agent is the lower-cased caller agent, even when a wildcard
\* group comes earlier, else the first wildcard group; with neither, the path
\* is allowed; later groups of the same agent play no part
C22_OneGroupApplies ==
    robotsOut.done =>
        IF TheGroup = 0 THEN robotsOut.allowed
        ELSE LET best == BestLoop(NoBest, robotsOut.groups[TheGroup].rules, TargetPath, 1)
             IN  robotsOut.allowed <=> best.type # "disallow"

\* the caller's own group, declared after a wildcard group that disallows
\* everything, has allowed /private/secret
C22_Witness ==
    /\ robotsOut.done
    /\ robotsIn.body = RobotsTwoGroups
    /\ robotsIn.ua = "content-agent"
    /\ robotsIn.path = "/private/secret"
    /\ TheGroup = 2
    /\ robotsOut.allowed

\* the rules of the applicable group, none when no group applies
TheRules == IF TheGroup = 0 THEN <<>> ELSE robotsOut.groups[TheGroup].rules

\* the positions of the rules with a non-empty path that is a prefix of the
\* target path
Matching ==
    {i \in 1..Len(TheRules) :
        TheRules[i].path # "" /\ startsWith(TargetPath, TheRules[i].path)}

\* the matching rules of maximal path length
Longest == {i \in Matching : \A j \in Matching : Len(TheRules[i].path) >= Len(TheRules[j].path)}

\* C23: within the applicable group the rule with a non-empty path and the
\* longest prefix match decides, the first in declaration order among the
\* rules of maximal length; with no matching rule the path is allowed
C23_LongestThenFirst ==
    robotsOut.done =>
        IF Matching = {} THEN robotsOut.allowed
        ELSE robotsOut.allowed <=> TheRules[Least(Longest)].type = "allow"

\* Allow: /other declared before Disallow: /other, both matching /other with
\* the same length, has allowed /other
C23_Witness ==
    /\ robotsOut.done
    /\ robotsIn.body = RobotsTie
    /\ robotsIn.path = "/other"
    /\ Cardinality(Longest) = 2
    /\ robotsOut.allowed

\* the directive a cleaned line carries: the text before its first colon,
\* lower-cased and trimmed, and the trimmed text after it; no key for a line
\* that is not a user-agent, allow or disallow line
Directive(line) ==
    LET k == IndexFrom(line, ":", 1)
        key == IF k <= 1 THEN "" ELSE trim(toLowerCase(SubSeq(line, 1, k - 1)))
    IN  IF key \in {"user-agent", "allow", "disallow"}
        THEN [key |-> key, value |-> trim(SubSeq(line, k + 1, Len(line)))]
        ELSE [key |-> "", value |-> ""]

HasKey(d) == d.key # ""

\* the user-agent, allow and disallow lines of the body, in order
Directives ==
    LET lines == RobotsLines(robotsIn.body) IN
    SelectSeq([i \in 1..Len(lines) |-> Directive(lines[i])], HasKey)

\* where groups begin: at every user-agent line, and before the first
\* directive (position 0, the implicit wildcard group) when that is a rule
GroupStarts ==
    {i \in 1..Len(Directives) : Directives[i].key = "user-agent"}
    \cup (IF Len(Directives) > 0 /\ Directives[1].key # "user-agent" THEN {0} ELSE {})

\* the group begun at s: its agent, and the rule lines up to the next
\* user-agent line in declaration order
GroupAt(s) ==
    LET later == {t \in GroupStarts : t > s}
        stop == IF later = {} THEN Len(Directives) + 1 ELSE Least(later)
    IN  [agents |-> <<IF s = 0 THEN "*" ELSE toLowerCase(Directives[s].value)>>,
         rules  |-> [j \in 1..(stop - s - 1) |->
                        [type |-> Directives[s + j].key, path |-> Directives[s + j].value]]]

\* the groups that reach the output: those that had a rule when the next
\* user-agent line came, and the group current at the end
Output ==
    {s \in GroupStarts : Len(GroupAt(s).rules) > 0 \/ \A t \in GroupStarts : t <= s}

\* C24: a user-agent line opens a new current group and the previous one
\* reaches the output only if it has a rule; an allow or disallow line adds
\* a rule to the current group, an implicit wildcard group being opened
\* when there is none; each output group holds its rules in declaration order
C24_GroupsAsDeclared ==
    robotsOut.done =>
        /\ Len(robotsOut.groups) = Cardinality(Output)
        /\ \A s \in Output :
              LET n == Cardinality({t \in Output : t <= s})
              IN  /\ robotsOut.groups[n].agents = GroupAt(s).agents
                  /\ robotsOut.groups[n].rules = GroupAt(s).rules

\* a body that begins with rules and no user-agent line has been parsed into
\* the implicit wildcard group holding both rules in order
C24_Witness ==
    /\ robotsOut.done
    /\ robotsIn.body = RobotsNoAgent
    /\ Len(robotsOut.groups) = 1
    /\ robotsOut.groups[1].agents = <<"*">>
    /\ Len(robotsOut.groups[1].rules) = 2
    /\ robotsOut.groups[1].rules[1].type = "disallow"

\* the state of the parse loop after the first k cleaned lines of the body
ParsedUpTo(k) ==
    ParseLoop([groups |-> <<>>, current |-> NoGroup],
              SubSeq(RobotsLines(robotsIn.body), 1, k), 1)

\* C25: every parsed group has exactly one agent name and every group but the
\* last has at least one rule; a line without a colon, or whose key is not
\* user-agent, allow or disallow, changes neither the group list nor the
\* current group
C25_GroupShape ==
    robotsOut.done =>
        LET groups == robotsOut.groups
            lines == RobotsLines(robotsIn.body)
        IN  /\ \A i \in 1..Len(groups) : Len(groups[i].agents) = 1
            /\ \A i \in 1..(Len(groups) - 1) : Len(groups[i].rules) >= 1
            /\ \A k \in 1..Len(lines) :
                  ~HasKey(Directive(lines[k])) => ParsedUpTo(k) = ParsedUpTo(k - 1)

\* a body with a line lacking a key, two lines of other keys and a line
\* without a colon has been parsed into one wildcard group with its two rules
C25_Witness ==
    /\ robotsOut.done
    /\ robotsIn.body = RobotsOdd
    /\ Len(RobotsLines(robotsIn.body)) = 7
    /\ Len(robotsOut.groups) = 1
    /\ robotsOut.groups[1].agents = <<"*">>
    /\ Len(robotsOut.groups[1].rules) = 2

-----------------------------------------------------------------------------
(* Properties of the page cache, checked on CacheSpec *)

\* the invocation c started after an invocation for the same URL had
\* completed with a result, both with the cache enabled, and no invocation
\* completed in between
Successive(c) ==
    /\ c.cache
    /\ c.before.valid
    /\ c.before.ok
    /\ c.before.cache
    /\ c.before.url = c.url

\* the invocation c was answered from the cache with the object first
WithoutFetch(c, first) == c.hit /\ c.data = first /\ NoRequest(c)

\* a call made once the TTL has elapsed since the first started fetches anew
FreshAfterTTL ==
    \A c \in Seen :
        (Successive(c) /\ c.now - c.before.now >= CACHE_TTL_MS)
        => ~c.hit /\ c.robotsReqs = 1

\* C9 as stated: of two successive successful invocations for one URL with
\* the cache enabled, the second starting less than the TTL after the first
\* started, the second returns the object of the first without any request;
\* and a call made once the TTL has elapsed fetches anew
C9_WithinTTLIdentical ==
    /\ \A c \in Seen :
           (Successive(c) /\ c.result = "ok" /\ c.now - c.before.now < CACHE_TTL_MS)
           => WithoutFetch(c, c.before.data)
    /\ FreshAfterTTL

\* C9 amended: the same, for a first invocation that fetched the page, that
\* is, was not itself answered from the cache
C9_WithinTTLOfTheFetch ==
    /\ \A c \in Seen :
           (Successive(c) /\ c.result = "ok" /\ ~c.before.hit
               /\ c.now - c.before.now < CACHE_TTL_MS)
           => WithoutFetch(c, c.before.data)
    /\ FreshAfterTTL

\* an invocation has been answered from the cache, some time after the start
\* of the invocation before it, which had fetched the page
C9_Witness ==
    /\ prev.valid
    /\ Successive(prev)
    /\ ~prev.before.hit
    /\ prev.now > prev.before.now
    /\ prev.hit
    /\ prev.result = "ok"

\* the invocation that the step starts: the one numbered callsLeft, which
\* has completed within the step or stands in a slot after it
Started ==
    IF prev'.valid /\ prev'.seq = callsLeft THEN prev'
    ELSE call'[CHOOSE p \in Procs : call'[p].valid /\ call'[p].seq = callsLeft]

\* C26: a lookup that finds an entry serves it exactly when now - at is less
\* than the TTL of 600,000 ms; at now - at = TTL and beyond the invocation
\* goes on as if there were no entry, with a fresh robots request
C26_ServedIffYoungerThanTTL ==
    [][callsLeft' # callsLeft =>
          LET c == Started
              e == pageCache[c.key]
          IN  (c.cacheRead /\ e # NoEntry) =>
                  /\ c.hit <=> c.now - e.at < 600000
                  /\ c.hit => c.data = e.data /\ NoRequest(c)
                  /\ ~c.hit => /\ c.robotsReqs = 1
                               /\ \E p \in Procs : call'[p] = c /\ pc'[p] = "robots_fetch"]_vars

\* the second of two invocations started exactly the TTL after the first,
\* found the entry of the first, and waits for the answer to its robots request
C26_Witness ==
    /\ callsLeft = MaxCacheCalls - 2
    /\ pc[1] = "robots_fetch"
    /\ call[1].cacheRead
    /\ call[1].before.valid
    /\ pageCache[call[1].key] = [at |-> call[1].before.now, data |-> call[1].before.data]
    /\ call[1].now - pageCache[call[1].key].at = CACHE_TTL_MS
    /\ call[1].robotsReqs = 1

-----------------------------------------------------------------------------
(* The age of what a hit returns, checked on AgeSpec *)

\* C27: under every interleaving, the page a cache hit returns was read less
\* than the TTL before the hit; the timestamp of an entry is the time its
\* invocation started, never later than the time its page was read
C27_HitContentYoungerThanTTL ==
    /\ \A k \in Keys : pageCache[k] # NoEntry => pageCache[k].at <= fetchedAt.at[k]
    /\ (prev.valid /\ prev.hit)
       => /\ pageCache[prev.key].data = prev.data
          /\ fetchedAt.at[prev.key] <= prev.now
          /\ prev.now - fetchedAt.at[prev.key] < 600000

\* a hit has returned a page that was read some time after the invocation
\* that stored it had started
C27_Witness ==
    /\ prev.valid
    /\ prev.hit
    /\ fetchedAt.kept
    /\ pageCache[prev.key].at < fetchedAt.at[prev.key]
    /\ prev.now - pageCache[prev.key].at < CACHE_TTL_MS

-----------------------------------------------------------------------------
(* Properties of the page cache, checked on CacheSpec, continued *)

\* whether a paragraph of the text t scores above zero against the question q
ScoresAboveZero ==
    [t \in {pg.mainText : pg \in Pages}, q \in Questions |->
        /\ Truthy(q)
        /\ LET qTokens == {tokenize(q.text)[i] : i \in 1..Len(tokenize(q.text))}
               ps == paras(t)
           IN  \E i \in 1..Len(ps) : score(ps[i], qTokens) > 0]

\* C10: the relevantPassages of a result that an invocation returned is
\* non-empty only if that invocation supplied a question and a paragraph of
\* the page scored above zero against it
C10_PassagesOnlyForQuestion ==
    (prev.valid /\ prev.result = "ok")
    => (heap[prev.data].relevantPassages # <<>>
        => /\ Truthy(prev.question)
           /\ ScoresAboveZero[heap[prev.data].mainText, prev.question])

\* the objects execute can build: from one page, for one key and one question
Built ==
    {Result([key |-> k, question |-> q], pg) :
        k \in Keys, q \in Questions, pg \in {x \in Pages : ~x.throws}}

\* C13: under every interleaving of invocations for one key, the object of
\* every cache entry and of every cache hit is one that a single invocation
\* built whole, for that key; and once an invocation has stored, the entry
\* of its key is the one it wrote
C13_WholeValuesLastWriteWins ==
    /\ \A k \in Keys :
           pageCache[k] # NoEntry
           => /\ heap[pageCache[k].data] \in Built
              /\ heap[pageCache[k].data].url = k
    /\ (prev.valid /\ prev.hit) => heap[prev.data] \in Built
    /\ (prev.valid /\ prev.cacheWrote)
       => pageCache[prev.key] = [at |-> prev.now, data |-> prev.seq]

\* an invocation has stored its entry while one that started before it, for
\* the same key and with the cache enabled, is still reading its page
C13_Witness ==
    /\ prev.valid
    /\ prev.cacheWrote
    /\ \E p \in Procs :
           /\ pc[p] = "page_body"
           /\ call[p].cache
           /\ call[p].key = prev.key
           /\ call[p].now < prev.now

-----------------------------------------------------------------------------
(* Ownership of the cached object, checked on OwnSpec *)

\* the titles execute takes from a page
PageTitles == {pg.title : pg \in Pages}

\* C11: the object a cache hit returned carries no change made by the caller
\* of another invocation: its title is the title of the page, or what its
\* own caller wrote since
C11_HitReturnsStoredValue ==
    (prev.valid /\ prev.hit)
    => heap[prev.data].title \in PageTitles \cup {Marker(prev.seq)}

-----------------------------------------------------------------------------
(* Properties of relevantPassages (rank), checked on RankSpec *)

\* the ranker was applied to the text and the question, with the maximum 10
Ranked10(text, question) ==
    /\ rankOut.done
    /\ rankIn.text = text
    /\ rankIn.question = question
    /\ rankIn.max = 10

\* C18 as stated: for the two paragraphs "Para one about caching." and "Para
\* two about routers." and the query "caching", the ranker returns one
\* passage, the first paragraph with score 1
C18_ExampleReturnsFirstParagraph ==
    Ranked10("Para one about caching.\n\nPara two about routers.", "caching")
    => rankOut.passages = <<[snippet |-> "Para one about caching.", score |-> 1]>>

\* C18 amended: for that text the ranker returns no passage; for two
\* paragraphs of more than 60 characters each, of which the first alone has
\* the token caching, it returns one passage, the first paragraph with
\* score 1
C18_LongParagraphsReturnFirst ==
    /\ Ranked10("Para one about caching.\n\nPara two about routers.", "caching")
       => rankOut.passages = <<>>
    /\ Ranked10(TextCaching, "caching")
       => rankOut.passages =
              <<[snippet |-> "The page cache keeps every result for ten minutes; "
                             \o "caching saves a second fetch.",
                 score |-> 1]>>

\* the ranker has returned nothing for the two short paragraphs
C18_Witness ==
    /\ Ranked10(ExampleText, "caching")
    /\ rankOut.passages = <<>>

\* the paragraphs of a text, trimmed
TrimmedParagraphs(text) ==
    LET ps == splitParagraphs(text) IN {trim(ps[i]) : i \in 1..Len(ps)}

\* C19: every passage the ranker returns comes from a paragraph of the text,
\* and from none whose trimmed length is below 60
C19_NoShortParagraph ==
    rankOut.done
    => \A i \in 1..Len(rankOut.passages) :
           /\ \E p \in TrimmedParagraphs(rankIn.text) :
                  rankOut.passages[i].snippet = SubSeq(p, 1, Min(600, Len(p)))
           /\ \A p \in TrimmedParagraphs(rankIn.text) :
                  rankOut.passages[i].snippet = SubSeq(p, 1, Min(600, Len(p)))
                  => Len(p) >= 60

\* of three paragraphs about caching of 59, 60 and 61 characters, one has
\* been returned
C19_Witness ==
    /\ Ranked10(EdgeText, "caching")
    /\ Len(rankOut.passages) = 1

\* C20: every passage has a snippet of at most 600 characters that is a
\* prefix of a paragraph of the text and a whole score of at least 1, and
\* there are at most max passages
C20_PassageShape ==
    rankOut.done
    => /\ Len(rankOut.passages) <= rankIn.max
       /\ \A i \in 1..Len(rankOut.passages) :
              /\ Len(rankOut.passages[i].snippet) <= 600
              /\ \E p \in TrimmedParagraphs(rankIn.text) :
                     /\ Len(rankOut.passages[i].snippet) <= Len(p)
                     /\ SubSeq(p, 1, Len(rankOut.passages[i].snippet))
                            = rankOut.passages[i].snippet
              /\ rankOut.passages[i].score \in Nat
              /\ rankOut.passages[i].score >= 1

\* a paragraph of 650 characters has been returned as a snippet of 600
C20_Witness ==
    /\ Ranked10(HugeText, "caching")
    /\ Len(rankOut.passages) = 1
    /\ Len(rankOut.passages[1].snippet) = 600

\* the tokens of the question
QueryTokens ==
    LET q == tokenize(rankIn.question) IN {q[i] : i \in 1..Len(q)}

\* the trimmed paragraph p is returned as a passage
Returned(p) ==
    \E i \in 1..Len(rankOut.passages) :
        rankOut.passages[i].snippet = SubSeq(p, 1, Min(600, Len(p)))

\* C28: where the maximum does not cut the result, a trimmed paragraph is
\* returned as a passage exactly when it has 60 characters or more and
\* contains a token of the question; in particular one of exactly 60
\* characters is kept
C28_SixtyIsKept ==
    (rankOut.done /\ Cardinality(TrimmedParagraphs(rankIn.text)) <= rankIn.max)
    => \A p \in TrimmedParagraphs(rankIn.text) :
           Returned(p) <=> (Len(p) >= 60 /\ score(p, QueryTokens) > 0)

\* the paragraphs the ranker scores, and those of them, by position, that
\* score above zero
Scored == paras(rankIn.text)
Candidates == {i \in 1..Len(Scored) : score(Scored[i], QueryTokens) > 0}

\* paragraph i is ordered before paragraph j: by the higher score, and with
\* equal scores by the earlier position in the text
Before(i, j) ==
    LET si == score(Scored[i], QueryTokens)
        sj == score(Scored[j], QueryTokens)
    IN  si > sj \/ (si = sj /\ i < j)

\* the place of paragraph i in that order
Place(i) == 1 + Cardinality({j \in Candidates : Before(j, i)})

\* C29: the passages are in non-increasing score order, passages of equal
\* score in the order of their paragraphs in the text, and when more than
\* max paragraphs score above zero the first max of that order are returned
C29_OrderedStableTruncated ==
    rankOut.done =>
        /\ Len(rankOut.passages) = Min(rankIn.max, Cardinality(Candidates))
        /\ \A k \in 1..(Len(rankOut.passages) - 1) :
               rankOut.passages[k].score >= rankOut.passages[k + 1].score
        /\ \A i \in Candidates :
               Place(i) <= rankIn.max =>
                   rankOut.passages[Place(i)] =
                       [snippet |-> SubSeq(Scored[i], 1, Min(600, Len(Scored[i]))),
                        score |-> score(Scored[i], QueryTokens)]

\* of eleven paragraphs that score, the third and the seventh with 2 and the
\* others with 1, ten have been returned, those two first
C29_Witness ==
    /\ rankOut.done
    /\ rankIn.text = ManyText
    /\ rankIn.question = "caching routers"
    /\ rankIn.max = DefaultMax
    /\ Cardinality(Candidates) > rankIn.max
    /\ Len(rankOut.passages) = DefaultMax
    /\ rankOut.passages[2].score = 2
    /\ rankOut.passages[3].score = 1
    /\ rankOut.passages[3].snippet = ManyParagraphs[1]

-----------------------------------------------------------------------------
(* Properties of the result object, checked on TextSpec *)

\* the number of maximal runs of characters of s that are not white space
TokenCount(s) ==
    Cardinality({i \in 1..Len(s) :
                    /\ ~IsSpace(CharAt(s, i))
                    /\ (i = 1 \/ IsSpace(CharAt(s, i - 1)))})

\* C30: the wordCount of every result is the number of tokens of its main
\* text that white space delimits, also when white space leads or trails the
\* text, and 0 for the empty text
C30_WordCountIsTokenCount ==
    (prev.valid /\ prev.result = "ok")
    => heap[prev.data].wordCount = TokenCount(heap[prev.data].mainText)

=============================================================================
